---------------------------- MODULE Spec2Model ----------------------------
(***************************************************************************)
(* rail_recognition: PointCloudRecognizer::recognizeObject,               *)
(* scoreRegistration and computeGraspList                                 *)
(* (src/rail_recognition/src/PointCloudRecognizer.cpp).                   *)
(*                                                                         *)
(* Numbers.  Doubles are modelled by exact integers:                       *)
(*   - a score is counted in units of 1/10000, an overlap and a colour     *)
(*     error in percent, a distance error in units of 1/100;               *)
(*   - a success rate is the exact fraction <<successes, attempts>>;       *)
(*   - a rotation is one of the 24 rotations of the cube, so that every    *)
(*     tf2::Matrix3x3 has integer entries; a unit quaternion is written    *)
(*     by its integer direction <<x, y, z, w>> (entries in -1..1), which   *)
(*     stands for <<x, y, z, w>> / sqrt(x*x + y*y + z*z + w*w).            *)
(* Sequences are 1-based: index i here is index i - 1 of the code.         *)
(***************************************************************************)
EXTENDS Integers, Sequences, FiniteSets, TLC

\* ------------------------------------------------------------ bounds
MaxCandidates == 2
MaxGrasps == 3

\* ------------------------------------------------- vectors and matrices
Abs(a) == IF a < 0 THEN -a ELSE a

VecAdd(a, b) == <<a[1] + b[1], a[2] + b[2], a[3] + b[3]>>

VecSub(a, b) == <<a[1] - b[1], a[2] - b[2], a[3] - b[3]>>

Dot(a, b) == a[1] * b[1] + a[2] * b[2] + a[3] * b[3]

Col(M, c) == <<M[1][c], M[2][c], M[3][c]>>

\* tf2::Matrix3x3 * tf2::Vector3
MatVec(M, v) == <<Dot(M[1], v), Dot(M[2], v), Dot(M[3], v)>>

\* tf2::Vector3 * tf2::Matrix3x3 (a row vector times the matrix)
VecMat(v, M) == <<Dot(v, Col(M, 1)), Dot(v, Col(M, 2)), Dot(v, Col(M, 3))>>

\* tf2::Matrix3x3::operator*
MatMul(A, B) == [r \in 1..3 |-> [c \in 1..3 |-> Dot(A[r], Col(B, c))]]

\* tf2::Matrix3x3::transposeTimes: transpose(A) * B
TransposeTimes(A, B) == [r \in 1..3 |-> [c \in 1..3 |-> Dot(Col(A, r), Col(B, c))]]

IdentityMatrix == <<<<1, 0, 0>>, <<0, 1, 0>>, <<0, 0, 1>>>>

ZeroVector == <<0, 0, 0>>

\* ------------------------------------------------------- tf2::Transform
\* A tf2::Transform is a basis (rotation matrix) and an origin.
IdentityTransform == [basis |-> IdentityMatrix, origin |-> ZeroVector]

\* tf2::Transform::inverseTimes: inverse(self) * t.
\*   Vector3 v = t.getOrigin() - m_origin;
\*   return Transform(m_basis.transposeTimes(t.m_basis), v * m_basis);
inverseTimes(self, t) ==
  [basis |-> TransposeTimes(self.basis, t.basis),
   origin |-> VecMat(VecSub(t.origin, self.origin), self.basis)]

\* tf2::Transform::operator*: self * t
Times(self, t) ==
  [basis |-> MatMul(self.basis, t.basis),
   origin |-> VecAdd(MatVec(self.basis, t.origin), self.origin)]

\* ------------------------------------------ quaternion <-> rotation matrix
Length2(q) == q[1] * q[1] + q[2] * q[2] + q[3] * q[3] + q[4] * q[4]

\* tf2::Matrix3x3::setRotation(q): with d = length2(q) and s = 2 / d the
\* entries are 1 - (yy + zz), xy - wz, ... where xy = x * y * s.  For the
\* direction <<x, y, z, w>> every entry is (d * e) / d with the division exact.
setRotation(q) ==
  LET x == q[1]
      y == q[2]
      z == q[3]
      w == q[4]
      d == Length2(q)
  IN  << <<(d - 2 * (y * y + z * z)) \div d, (2 * (x * y - w * z)) \div d,
           (2 * (x * z + w * y)) \div d>>,
         <<(2 * (x * y + w * z)) \div d, (d - 2 * (x * x + z * z)) \div d,
           (2 * (y * z - w * x)) \div d>>,
         <<(2 * (x * z - w * y)) \div d, (2 * (y * z + w * x)) \div d,
           (d - 2 * (x * x + y * y)) \div d>> >>

\* tf2::Matrix3x3::getRotation(q): the quaternion of a rotation matrix.  With
\* S the number under the square root, every component is N / (2 * sqrt(S))
\* for an integer N (the chosen component has N = S); S is 4, 2 or 1 and the
\* direction of the result is N \div S.
getRotation(m) ==
  LET trace == m[1][1] + m[2][2] + m[3][3]
  IN  IF trace > 0
      THEN LET S == trace + 1
           IN  <<(m[3][2] - m[2][3]) \div S, (m[1][3] - m[3][1]) \div S,
                 (m[2][1] - m[1][2]) \div S, S \div S>>
      ELSE LET a == IF m[1][1] < m[2][2]
                    THEN (IF m[2][2] < m[3][3] THEN 3 ELSE 2)
                    ELSE (IF m[1][1] < m[3][3] THEN 3 ELSE 1)
               b == (a % 3) + 1
               c == ((a + 1) % 3) + 1
               S == m[a][a] - m[b][b] - m[c][c] + 1
               temp == [n \in 1..4 |->
                          IF n = a THEN S
                          ELSE IF n = 4 THEN m[c][b] - m[b][c]
                          ELSE IF n = b THEN m[b][a] + m[a][b]
                          ELSE m[c][a] + m[a][c]]
           IN  <<temp[1] \div S, temp[2] \div S, temp[3] \div S, temp[4] \div S>>

\* ----------------------------------------------------------- graspdb::Pose
\* A graspdb::Pose: robot_fixed_frame_id, position, orientation (quaternion).

\* Pose::toTF2Transform: tf2::Transform(orientation, position)
toTF2Transform(pose) ==
  [basis |-> setRotation(pose.orientation), origin |-> pose.position]

\* Pose::Pose(robot_fixed_frame_id, tf2::Transform): the position is the
\* origin, the orientation is tf.getRotation()
PoseFromTF2(frame, tf) ==
  [robot_fixed_frame_id |-> frame, position |-> tf.origin,
   orientation |-> getRotation(tf.basis)]

\* Pose::toROSPoseStampedMessage
toROSPoseStampedMessage(pose) ==
  [frame_id |-> pose.robot_fixed_frame_id, position |-> pose.position,
   orientation |-> pose.orientation]


\* ---------------------------------------------------------- graspdb::Grasp
\* A graspdb::Grasp: id, grasp_pose, eef_frame_id, successes, attempts, created.

\* Grasp::getSuccessRate: attempts == 0 ? 0 : successes / attempts, as the
\* exact fraction <<numerator, denominator>>
getSuccessRate(g) ==
  IF g.attempts = 0 THEN <<0, 1>> ELSE <<g.successes, g.attempts>>

\* comparisons of two success rates (doubles in the code)
RateLE(a, b) == a[1] * b[2] <= b[1] * a[2]

RateLT(a, b) == a[1] * b[2] < b[1] * a[2]

RateEQ(a, b) == a[1] * b[2] = b[1] * a[2]

RatePositive(a) == a[1] > 0

\* ------------------------------------------------- recognition constants
\* PointCloudRecognizer::ALPHA, in percent
ALPHA == 50

\* PointCloudRecognizer::COLOR_THRESHOLD, in colour units
COLOR_THRESHOLD == 30

\* PointCloudRecognizer::SCORE_CONFIDENCE_THRESHOLD, in units of 1/10000
SCORE_CONFIDENCE_THRESHOLD == 11000

\* ------------------------------------------------------------------ inputs
Grasp(id, att, suc, pos, q) ==
  [id |-> id,
   grasp_pose |-> [robot_fixed_frame_id |-> "base_footprint", position |-> pos,
                   orientation |-> q],
   eef_frame_id |-> "eef_link", successes |-> suc, attempts |-> att,
   created |-> 1000 + id]

\* never attempted, failed, two of rate 1/2, one of rate 1, never attempted
GraspPool ==
  { Grasp(1, 0, 0, <<1, 0, 0>>, <<0, 0, 0, 1>>),
    Grasp(2, 5, 0, <<0, 1, 0>>, <<0, 0, 0, -1>>),
    Grasp(3, 2, 1, <<0, 0, 1>>, <<0, 0, 1, 1>>),
    Grasp(4, 4, 2, <<1, 1, 0>>, <<-1, 0, 0, -1>>),
    Grasp(5, 1, 1, <<2, 0, 1>>, <<1, 1, 1, 1>>),
    [Grasp(6, 0, 0, <<0, 2, 0>>, <<1, -1, 0, 0>>)
       EXCEPT !.grasp_pose.robot_fixed_frame_id = "odom"] }

\* the sequences of at most n distinct elements of S
RECURSIVE ListsUpTo(_, _)
ListsUpTo(S, n) ==
  IF n = 0 THEN {<<>>}
  ELSE LET shorter == ListsUpTo(S, n - 1)
       IN  shorter \cup
           {Append(l, e) : l \in {m \in shorter : Len(m) = n - 1}, e \in S}

Injective(l) == \A a, b \in DOMAIN l : a # b => l[a] # l[b]

GraspLists == {l \in ListsUpTo(GraspPool, MaxGrasps) : Injective(l)}

RotZ90 == <<<<0, -1, 0>>, <<1, 0, 0>>, <<0, 0, 1>>>>

RotX180 == <<<<1, 0, 0>>, <<0, -1, 0>>, <<0, 0, -1>>>>

\* alignment transforms performICP may return
AlignmentTransforms ==
  { IdentityTransform,
    [basis |-> RotZ90, origin |-> <<1, 0, 2>>] }

\* what an uninitialised tf2::Transform may hold
GarbageTransforms ==
  { IdentityTransform, [basis |-> RotX180, origin |-> <<7, 7, 7>>] }

ObjectColor == <<100, 100, 100>>

\* A graspdb::GraspModel with the registration metrics PointCloudMetrics
\* computes for it against the observed cloud: cloud size and average colour,
\* the ICP transform, the overlap (percent), the distance error (1/100) and
\* the colour error (percent).
Model(name, size, rgb, tf, overlap, dist, color, grasps) ==
  [id |-> 0, object_name |-> name,
   point_cloud |-> [size |-> size, rgb |-> rgb],
   icp_tf |-> tf, overlap |-> overlap, distance_error |-> dist,
   color_error |-> color, grasps |-> grasps]

PoolGrasp(n) == CHOOSE g \in GraspPool : g.id = n

TurnedTransform == [basis |-> RotZ90, origin |-> <<1, 0, 2>>]

ModelPool ==
  { \* no stored point cloud
    Model("nocloud", 0, ObjectColor, IdentityTransform, 100, 0, 0, <<PoolGrasp(1)>>),
    \* red channel off by more than COLOR_THRESHOLD
    Model("red", 5, <<131, 100, 100>>, IdentityTransform, 100, 0, 0, <<PoolGrasp(1)>>),
    \* red and green exactly COLOR_THRESHOLD off, blue off by more
    Model("blue", 5, <<130, 70, 69>>, IdentityTransform, 100, 0, 0, <<PoolGrasp(5)>>),
    \* colours exactly COLOR_THRESHOLD off, overlap below 0.75, perfect errors
    Model("sparse", 5, <<130, 70, 130>>, IdentityTransform, 74, 0, 0, <<PoolGrasp(3)>>),
    \* score 5000
    Model("cup", 5, ObjectColor, IdentityTransform, 75, 20, 40,
          <<PoolGrasp(3), PoolGrasp(2)>>),
    \* score 5000 again, from other errors
    Model("bowl", 5, <<90, 110, 100>>, TurnedTransform, 90, 0, 100,
          <<PoolGrasp(1), PoolGrasp(5)>>),
    \* score 0
    Model("ball", 5, ObjectColor, TurnedTransform, 100, 0, 0, <<PoolGrasp(4)>>),
    \* score exactly SCORE_CONFIDENCE_THRESHOLD
    Model("edge", 5, ObjectColor, IdentityTransform, 80, 40, 100, <<PoolGrasp(6)>>),
    \* score above SCORE_CONFIDENCE_THRESHOLD
    Model("far", 5, ObjectColor, IdentityTransform, 80, 41, 100, <<PoolGrasp(5)>>) }

\* the database gives every model its own id
WithIDs(l) == [n \in DOMAIN l |-> [l[n] EXCEPT !.id = 100 + n]]

\* candidate lists that exercise the selection
SelectionLists == {WithIDs(l) : l \in ListsUpTo(ModelPool, MaxCandidates)}

\* one matching candidate with any grasp list and alignment
RankingLists ==
  { WithIDs(<<Model("mug", 5, ObjectColor, tf, 100, 10, 20, gl)>>) :
      gl \in GraspLists, tf \in AlignmentTransforms }

StalePose ==
  [frame_id |-> "old_frame", position |-> <<9, 9, 9>>, orientation |-> <<1, 0, 0, 0>>]

\* a rail_manipulation_msgs::SegmentedObject as the caller may pass it: a new
\* message (all fields zero) or one that holds an earlier recognition
FreshObject(size, centroid) ==
  [name |-> "", model_id |-> 0, confidence |-> 0, recognized |-> FALSE,
   orientation |-> [x |-> 0, y |-> 0, z |-> 0, w |-> 0], grasps |-> <<>>,
   centroid |-> centroid,
   point_cloud |-> [size |-> size, frame_id |-> "camera_frame", rgb |-> ObjectColor]]

StaleObject(size, centroid) ==
  [name |-> "old", model_id |-> 99, confidence |-> 7, recognized |-> TRUE,
   orientation |-> [x |-> 1, y |-> 0, z |-> 0, w |-> 0], grasps |-> <<StalePose>>,
   centroid |-> centroid,
   point_cloud |-> [size |-> size, frame_id |-> "camera_frame", rgb |-> ObjectColor]]

Centroids == {ZeroVector, <<1, 2, 3>>}

Objects ==
  {FreshObject(size, c) : size \in {0, 4}, c \in Centroids}
    \cup {StaleObject(size, c) : size \in {0, 4}, c \in Centroids}

\* every score is below this: numeric_limits<double>::infinity()
Infinity == 1000000

\* ------------------------------------------------------------------- state
VARIABLES
  pc,              \* where recognizeObject is: start, loop, rank, done
  ret,             \* its return value, once pc = "done"
  candidates,      \* the candidates argument
  object,          \* the object argument (in/out)
  object_in,       \* the object as it was passed in
  i,               \* index of the candidate loop
  min_score, min_index, min_icp_tf,
  possible_grasps, success_rates,
  grasps_in,       \* the output list as it was passed to computeGraspList
  gi,              \* index of the ranking loop
  calls            \* the registration calls made so far: <<function, candidate>>

vars == <<pc, ret, candidates, object, object_in, i, min_score, min_index,
          min_icp_tf, possible_grasps, success_rates, grasps_in, gi, calls>>

\* min_index and min_icp_tf are declared without a value (lines 55-56)
Init ==
  /\ pc = "start"
  /\ ret = FALSE
  /\ candidates \in SelectionLists \cup RankingLists
  /\ object \in Objects
  /\ object_in = object
  /\ i = 1
  /\ min_score = Infinity
  /\ min_index \in 1..(MaxCandidates + 1)
  /\ min_icp_tf \in GarbageTransforms
  /\ possible_grasps = <<>>
  /\ grasps_in = <<>>
  /\ success_rates = <<>>
  /\ gi = 1
  /\ calls = <<>>

\* -------------------------------------------------------- recognizeObject
Channels == {1, 2, 3}

\* line 69: the average colour check
ColorTooFar_redOnly(object_rgb, candidate_rgb) ==
  Abs(object_rgb[1] - candidate_rgb[1]) > COLOR_THRESHOLD

ColorTooFar(object_rgb, candidate_rgb) ==
  \/ Abs(object_rgb[1] - candidate_rgb[1]) > COLOR_THRESHOLD
  \/ Abs(object_rgb[2] - candidate_rgb[2]) > COLOR_THRESHOLD
  \/ Abs(object_rgb[3] - candidate_rgb[3]) > COLOR_THRESHOLD

\* scoreRegistration (lines 140-161): the score (in units of 1/10000; -1 for a
\* rejected registration), the ICP transform written to tf_icp, and the
\* point_cloud_metrics calls made
scoreRegistration(candidate) ==
  IF candidate.overlap < 75
  THEN [result |-> -1, tf_icp |-> candidate.icp_tf,
        calls |-> <<"performICP", "overlap">>]
  ELSE [result |-> ALPHA * (3 * candidate.distance_error)
                     + (100 - ALPHA) * candidate.color_error,
        tf_icp |-> candidate.icp_tf,
        calls |-> <<"performICP", "overlap", "distanceError", "colorError">>]

\* line 76: does this score replace the running minimum
Improves_orEqual(score, min) == score >= 0 /\ score <= min

Improves_noSentinel(score, min) == score < min

Improves(score, min) == score >= 0 /\ score < min

\* line 86: is the confidence too low
NotConfident_strictBelow(min) == min >= SCORE_CONFIDENCE_THRESHOLD

NotConfident(min) == min > SCORE_CONFIDENCE_THRESHOLD

\* computeGraspList (lines 163-189): the grasps of the model, each with its
\* pose moved by the inverse of tf_icp and shifted by the centroid
computeGraspList_newGrasp(tf_icp, centroid, candidate_grasps) ==
  [n \in DOMAIN candidate_grasps |->
     LET tf_pose == toTF2Transform(candidate_grasps[n].grasp_pose)
         result == inverseTimes(tf_icp, tf_pose)
         shifted == [result EXCEPT !.origin = VecAdd(result.origin, centroid)]
     IN  [candidate_grasps[n] EXCEPT
            !.successes = 0,
            !.attempts = 0,
            !.grasp_pose =
               PoseFromTF2(candidate_grasps[n].grasp_pose.robot_fixed_frame_id,
                           shifted)]]

computeGraspList_forward(tf_icp, centroid, candidate_grasps) ==
  [n \in DOMAIN candidate_grasps |->
     LET tf_pose == toTF2Transform(candidate_grasps[n].grasp_pose)
         result == Times(tf_icp, tf_pose)
         shifted == [result EXCEPT !.origin = VecAdd(result.origin, centroid)]
     IN  [candidate_grasps[n] EXCEPT
            !.grasp_pose =
               PoseFromTF2(candidate_grasps[n].grasp_pose.robot_fixed_frame_id,
                           shifted)]]

computeGraspList(tf_icp, centroid, candidate_grasps) ==
  [n \in DOMAIN candidate_grasps |->
     LET tf_pose == toTF2Transform(candidate_grasps[n].grasp_pose)
         result == inverseTimes(tf_icp, tf_pose)
         shifted == [result EXCEPT !.origin = VecAdd(result.origin, centroid)]
     IN  [candidate_grasps[n] EXCEPT
            !.grasp_pose =
               PoseFromTF2(candidate_grasps[n].grasp_pose.robot_fixed_frame_id,
                           shifted)]]

\* line 114: any non-zero or non-attempted grasp
KeepGrasp_positiveOnly(g) == RatePositive(getSuccessRate(g))

KeepGrasp(g) == RatePositive(getSuccessRate(g)) \/ g.attempts = 0

\* lines 118-133: where the grasp goes: before the first placed entry whose
\* rate is not below its own, at the end when there is none
InsertIndex_afterEqual(rate, rates) ==
  LET at == {j \in DOMAIN rates : RateLT(rate, rates[j])}
  IN  IF at = {} THEN Len(rates) + 1
      ELSE CHOOSE j \in at : \A n \in at : j <= n

InsertIndex_front(rate, rates) == 1

InsertIndex(rate, rates) ==
  LET at == {j \in DOMAIN rates : RateLE(rate, rates[j])}
  IN  IF at = {} THEN Len(rates) + 1
      ELSE CHOOSE j \in at : \A n \in at : j <= n

\* vector::insert(begin() + j, e), vector::push_back(e) for j past the end
InsertAt(s, j, e) == SubSeq(s, 1, j - 1) \o <<e>> \o SubSeq(s, j, Len(s))

\* candidates[index]; what an index outside the list reads is not defined
CandidateAt(index) ==
  IF index \in DOMAIN candidates THEN candidates[index]
  ELSE [id |-> -1, object_name |-> "garbage", grasps |-> <<>>]

Return(value) ==
  /\ pc' = "done"
  /\ ret' = value

\* lines 32-36
ReturnNoCandidates ==
  /\ pc = "start"
  /\ candidates = <<>>
  /\ Return(FALSE)
  /\ UNCHANGED <<candidates, grasps_in, object, object_in, i, min_score, min_index,
                 min_icp_tf, possible_grasps, success_rates, gi, calls>>

\* lines 37-41
ReturnEmptyCloud ==
  /\ pc = "start"
  /\ candidates # <<>>
  /\ object.point_cloud.size = 0
  /\ Return(FALSE)
  /\ UNCHANGED <<candidates, grasps_in, object, object_in, i, min_score, min_index,
                 min_icp_tf, possible_grasps, success_rates, gi, calls>>

\* lines 43-57: the observed cloud is converted and pre-processed in a copy,
\* the record is only read; the loop starts
Preprocess ==
  /\ pc = "start"
  /\ candidates # <<>>
  /\ object.point_cloud.size # 0
  /\ pc' = "loop"
  /\ i' = 1
  /\ min_score' = Infinity
  /\ UNCHANGED <<ret, candidates, grasps_in, object, object_in, min_index, min_icp_tf,
                 possible_grasps, success_rates, gi, calls>>

\* line 60: a candidate without a point cloud
SkipNoCloud ==
  /\ pc = "loop"
  /\ i <= Len(candidates)
  /\ candidates[i].point_cloud.size = 0
  /\ i' = i + 1
  /\ UNCHANGED <<pc, ret, candidates, grasps_in, object, object_in, min_score, min_index,
                 min_icp_tf, possible_grasps, success_rates, gi, calls>>

\* lines 66-72: a candidate of another colour
SkipColor ==
  /\ pc = "loop"
  /\ i <= Len(candidates)
  /\ candidates[i].point_cloud.size > 0
  /\ ColorTooFar(object.point_cloud.rgb, candidates[i].point_cloud.rgb)
  /\ i' = i + 1
  /\ UNCHANGED <<pc, ret, candidates, grasps_in, object, object_in, min_score, min_index,
                 min_icp_tf, possible_grasps, success_rates, gi, calls>>

\* lines 74-81: the candidate is registered and scored
Score ==
  /\ pc = "loop"
  /\ i <= Len(candidates)
  /\ candidates[i].point_cloud.size > 0
  /\ ~ColorTooFar(object.point_cloud.rgb, candidates[i].point_cloud.rgb)
  /\ LET r == scoreRegistration(candidates[i])
     IN  /\ calls' = calls \o [n \in DOMAIN r.calls |-> <<r.calls[n], i>>]
         /\ IF Improves(r.result, min_score)
            THEN /\ min_score' = r.result
                 /\ min_index' = i
                 /\ min_icp_tf' = r.tf_icp
            ELSE UNCHANGED <<min_score, min_index, min_icp_tf>>
  /\ i' = i + 1
  /\ UNCHANGED <<pc, ret, candidates, grasps_in, object, object_in, possible_grasps,
                 success_rates, gi>>

\* lines 85-89
ReturnNoMatch_flagged ==
  /\ pc = "loop"
  /\ i > Len(candidates)
  /\ NotConfident(min_score)
  /\ Return(FALSE)
  /\ object' = [object EXCEPT !.recognized = FALSE, !.grasps = <<>>]
  /\ UNCHANGED <<candidates, grasps_in, object_in, i, min_score, min_index,
                 min_icp_tf, possible_grasps, success_rates, gi, calls>>

ReturnNoMatch ==
  /\ pc = "loop"
  /\ i > Len(candidates)
  /\ NotConfident(min_score)
  /\ Return(FALSE)
  /\ UNCHANGED <<candidates, grasps_in, object, object_in, i, min_score, min_index,
                 min_icp_tf, possible_grasps, success_rates, gi, calls>>

\* lines 91-105: the recognition is written to the record, the grasps of the
\* model are moved to the object
FillIn ==
  /\ pc = "loop"
  /\ i > Len(candidates)
  /\ ~NotConfident(min_score)
  /\ object' = [object EXCEPT !.name = CandidateAt(min_index).object_name,
                              !.model_id = CandidateAt(min_index).id,
                              !.confidence = min_score,
                              !.recognized = TRUE,
                              !.orientation.w = 1,
                              !.grasps = <<>>]
  /\ possible_grasps' = computeGraspList(min_icp_tf, object.centroid,
                                         CandidateAt(min_index).grasps)
  /\ success_rates' = <<>>
  /\ gi' = 1
  /\ pc' = "rank"
  /\ UNCHANGED <<ret, candidates, grasps_in, object_in, i, min_score, min_index,
                 min_icp_tf, calls>>

\* lines 106-114: a grasp that was tried and never succeeded is left out
RankSkip ==
  /\ pc = "rank"
  /\ gi <= Len(possible_grasps)
  /\ ~KeepGrasp(possible_grasps[gi])
  /\ gi' = gi + 1
  /\ UNCHANGED <<pc, ret, candidates, grasps_in, object, object_in, i, min_score,
                 min_index, min_icp_tf, possible_grasps, success_rates, calls>>

\* lines 106-134: a grasp is placed in order, its pose in the frame of the cloud
RankInsert_keepFrame ==
  /\ pc = "rank"
  /\ gi <= Len(possible_grasps)
  /\ KeepGrasp(possible_grasps[gi])
  /\ LET rate == getSuccessRate(possible_grasps[gi])
         pose == toROSPoseStampedMessage(possible_grasps[gi].grasp_pose)
         j == InsertIndex(rate, success_rates)
     IN  /\ object' = [object EXCEPT !.grasps = InsertAt(object.grasps, j, pose)]
         /\ success_rates' = InsertAt(success_rates, j, rate)
  /\ gi' = gi + 1
  /\ UNCHANGED <<pc, ret, candidates, grasps_in, object_in, i, min_score, min_index,
                 min_icp_tf, possible_grasps, calls>>

RankInsert ==
  /\ pc = "rank"
  /\ gi <= Len(possible_grasps)
  /\ KeepGrasp(possible_grasps[gi])
  /\ LET rate == getSuccessRate(possible_grasps[gi])
         pose == [toROSPoseStampedMessage(possible_grasps[gi].grasp_pose)
                    EXCEPT !.frame_id = object.point_cloud.frame_id]
         j == InsertIndex(rate, success_rates)
     IN  /\ object' = [object EXCEPT !.grasps = InsertAt(object.grasps, j, pose)]
         /\ success_rates' = InsertAt(success_rates, j, rate)
  /\ gi' = gi + 1
  /\ UNCHANGED <<pc, ret, candidates, grasps_in, object_in, i, min_score, min_index,
                 min_icp_tf, possible_grasps, calls>>

\* line 137
ReturnTrue ==
  /\ pc = "rank"
  /\ gi > Len(possible_grasps)
  /\ Return(TRUE)
  /\ UNCHANGED <<candidates, grasps_in, object, object_in, i, min_score, min_index,
                 min_icp_tf, possible_grasps, success_rates, gi, calls>>

Next ==
  \/ ReturnNoCandidates
  \/ ReturnEmptyCloud
  \/ Preprocess
  \/ SkipNoCloud
  \/ SkipColor
  \/ Score
  \/ ReturnNoMatch
  \/ FillIn
  \/ RankSkip
  \/ RankInsert
  \/ ReturnTrue

Spec == Init /\ [][Next]_vars

\* ------------------------------------------------------------------ claims
Succeeded == pc = "rank" \/ (pc = "done" /\ ret)

Failed == pc = "done" /\ ~ret

NonEmptyInputs == candidates # <<>> /\ object.point_cloud.size # 0

InCalls(c) == \E n \in DOMAIN calls : calls[n] = c

\* the candidate's average colour is more than COLOR_THRESHOLD away from the
\* observed one in at least one channel
ColourDiffers(n) ==
  \E ch \in Channels :
     Abs(object.point_cloud.rgb[ch] - candidates[n].point_cloud.rgb[ch])
       > COLOR_THRESHOLD

\* the candidates that are registered and not rejected, among the first m
Accepted(m) ==
  {n \in 1..m : /\ candidates[n].point_cloud.size > 0
                /\ ~ColourDiffers(n)
                /\ candidates[n].overlap >= 75}

ScoreOf(n) ==
  ALPHA * (3 * candidates[n].distance_error)
    + (100 - ALPHA) * candidates[n].color_error

\* the least score among the first m candidates (Infinity when none is accepted)
MinAccepted(m) ==
  IF Accepted(m) = {} THEN Infinity
  ELSE LET s == CHOOSE n \in Accepted(m) :
                  \A o \in Accepted(m) : ScoreOf(n) <= ScoreOf(o)
       IN  ScoreOf(s)

\* C1: whenever recognizeObject returns false (no candidates, empty observed
\* cloud, or no candidate within SCORE_CONFIDENCE_THRESHOLD) every field of
\* the observed object record has the value it had before the call; the
\* record is not touched before the confidence check either.
C1_FailureLeavesObject ==
  (Failed \/ pc \in {"start", "loop"}) => object = object_in

\* a record that holds an earlier recognition, candidates were scored, none
\* was good enough
C1_Witness ==
  /\ Failed
  /\ NonEmptyInputs
  /\ object_in.recognized
  /\ object_in.grasps # <<>>
  /\ calls # <<>>

\* C2: for non-empty inputs recognizeObject returns true iff the least score
\* of the evaluated, non-rejected candidates is <= SCORE_CONFIDENCE_THRESHOLD,
\* and then object.confidence is that least score.
C2_ConfidenceIsMinimum ==
  (pc = "done" /\ NonEmptyInputs) =>
     /\ ret <=> (MinAccepted(Len(candidates)) <= SCORE_CONFIDENCE_THRESHOLD)
     /\ ret => /\ object.confidence = MinAccepted(Len(candidates))
               /\ object.confidence <= SCORE_CONFIDENCE_THRESHOLD
               /\ object.recognized

\* accepted with a score exactly at the threshold, after a worse candidate
C2_Witness ==
  /\ pc = "done"
  /\ ret
  /\ Len(candidates) = 2
  /\ Accepted(2) = {1, 2}
  /\ ScoreOf(1) > SCORE_CONFIDENCE_THRESHOLD
  /\ object.confidence = SCORE_CONFIDENCE_THRESHOLD

\* the accepted candidates among the first m that have the least score
Best(m) == {n \in Accepted(m) : ScoreOf(n) = MinAccepted(m)}

\* C3: among candidates of the same least score the first of the list is
\* selected: during the loop the running index is the lowest index that has
\* the running minimum, and on success name, id, transform and grasps are
\* those of the lowest-indexed candidate of least score.
C3_FirstOfTiesWins ==
  /\ (pc = "loop" /\ min_score < Infinity) =>
        /\ min_index \in Best(i - 1)
        /\ \A n \in Best(i - 1) : min_index <= n
        /\ min_score = MinAccepted(i - 1)
  /\ Succeeded =>
        /\ min_index \in Best(Len(candidates))
        /\ \A n \in Best(Len(candidates)) : min_index <= n
        /\ object.name = candidates[min_index].object_name
        /\ object.model_id = candidates[min_index].id
        /\ min_icp_tf = candidates[min_index].icp_tf
        /\ Len(possible_grasps) = Len(candidates[min_index].grasps)
        /\ \A n \in DOMAIN possible_grasps :
              possible_grasps[n].id = candidates[min_index].grasps[n].id

\* two candidates of the same score, the record names the first
C3_Witness ==
  /\ pc = "done"
  /\ ret
  /\ Best(Len(candidates)) = {1, 2}
  /\ candidates[1].object_name # candidates[2].object_name
  /\ object.model_id = candidates[1].id

\* C4: a candidate whose registration overlap is below 0.75 scores -1, its
\* distance and colour errors are not computed, and it is never selected,
\* also when it is the only candidate; when every candidate is rejected so,
\* recognizeObject returns false.
C4_LowOverlapNeverSelected ==
  /\ \A n \in DOMAIN candidates :
        candidates[n].overlap < 75 =>
           /\ scoreRegistration(candidates[n]).result = -1
           /\ ~InCalls(<<"distanceError", n>>)
           /\ ~InCalls(<<"colorError", n>>)
           /\ (pc = "loop" /\ min_score < Infinity) => min_index # n
           /\ Succeeded => (min_index # n /\ object.model_id # candidates[n].id)
  /\ (pc = "done" /\ NonEmptyInputs
        /\ \A n \in DOMAIN candidates : candidates[n].overlap < 75) => ~ret

\* a candidate of low overlap and perfect errors was registered first, another
\* candidate was selected
C4_Witness ==
  /\ pc = "done"
  /\ ret
  /\ Len(candidates) = 2
  /\ candidates[1].overlap < 75
  /\ candidates[1].distance_error = 0
  /\ InCalls(<<"overlap", 1>>)
  /\ min_index = 2

\* C5: a candidate whose average colour is more than COLOR_THRESHOLD away in
\* at least one channel (or that has no point cloud) is never registered;
\* when every candidate is skipped so, no registration is made and
\* recognizeObject returns false.
C5_ColourFilterSkips ==
  /\ \A n \in DOMAIN candidates :
        (candidates[n].point_cloud.size = 0 \/ ColourDiffers(n)) =>
           \A c \in DOMAIN calls : calls[c][2] # n
  /\ (pc = "done" /\ NonEmptyInputs
        /\ \A n \in DOMAIN candidates :
              candidates[n].point_cloud.size = 0 \/ ColourDiffers(n))
       => (calls = <<>> /\ ~ret)

\* both candidates have a cloud and are skipped for their colour, one of them
\* for the blue channel alone
C5_Witness ==
  /\ Failed
  /\ NonEmptyInputs
  /\ Len(candidates) = 2
  /\ \A n \in DOMAIN candidates :
        candidates[n].point_cloud.size > 0 /\ ColourDiffers(n)
  /\ \E n \in DOMAIN candidates :
        Abs(object.point_cloud.rgb[1] - candidates[n].point_cloud.rgb[1])
          <= COLOR_THRESHOLD
  /\ calls = <<>>

\* the grasp list of the selected model
WinnerGrasps == candidates[min_index].grasps

\* pose p (a PoseStamped of object.grasps) is the moved pose of grasp g
PoseOf(p, g) ==
  /\ p.position = g.grasp_pose.position
  /\ p.orientation = g.grasp_pose.orientation

\* the index, in the list of the model, of the grasp whose pose is object.grasps[k]
SourceIndex(k) ==
  CHOOSE n \in DOMAIN possible_grasps : PoseOf(object.grasps[k], possible_grasps[n])

\* the grasps of the model that were tried and never succeeded
TriedAndFailed(g) == g.attempts > 0 /\ g.successes = 0

\* C6: after a successful recognizeObject object.grasps holds exactly one
\* pose for each grasp of the selected model that is not tried-and-failed
\* and nothing else; the poses the record held before are gone.
C6_GraspFilter ==
  (pc = "done" /\ ret) =>
     LET kept == {n \in DOMAIN WinnerGrasps : ~TriedAndFailed(WinnerGrasps[n])}
     IN  /\ Len(object.grasps) = Cardinality(kept)
         /\ \A n \in kept :
               Cardinality({k \in DOMAIN object.grasps :
                              PoseOf(object.grasps[k], possible_grasps[n])}) = 1
         /\ \A k \in DOMAIN object.grasps :
               \E n \in kept : PoseOf(object.grasps[k], possible_grasps[n])
         /\ \A k \in DOMAIN object.grasps :
               \A o \in DOMAIN object_in.grasps : object.grasps[k] # object_in.grasps[o]

\* the model has a failed grasp, a never-attempted one and a successful one,
\* and the record held a pose before
C6_Witness ==
  /\ pc = "done"
  /\ ret
  /\ object_in.grasps # <<>>
  /\ \E n \in DOMAIN WinnerGrasps : TriedAndFailed(WinnerGrasps[n])
  /\ \E n \in DOMAIN WinnerGrasps : WinnerGrasps[n].attempts = 0
  /\ \E n \in DOMAIN WinnerGrasps : WinnerGrasps[n].successes > 0
  /\ Len(object.grasps) = 2

\* C7: the emitted grasps are in ascending order of success rate whatever
\* the order of the model's grasps, and after every insertion success_rates
\* and object.grasps have the same length and success_rates[k] is the rate of
\* the grasp whose pose is object.grasps[k].
C7_AscendingRates ==
  Succeeded =>
     /\ Len(success_rates) = Len(object.grasps)
     /\ \A k \in DOMAIN object.grasps :
           /\ \E n \in 1..(gi - 1) : PoseOf(object.grasps[k], possible_grasps[n])
           /\ success_rates[k] = getSuccessRate(WinnerGrasps[SourceIndex(k)])
     /\ \A k, l \in DOMAIN success_rates :
           k < l => RateLE(success_rates[k], success_rates[l])

\* three grasps were placed that the model lists in descending order of rate
C7_Witness ==
  /\ pc = "done"
  /\ ret
  /\ Len(WinnerGrasps) = 3
  /\ Len(object.grasps) = 3
  /\ RateLT(getSuccessRate(WinnerGrasps[2]), getSuccessRate(WinnerGrasps[1]))
  /\ RateLT(getSuccessRate(WinnerGrasps[3]), getSuccessRate(WinnerGrasps[2]))

\* C8 as stated: the insertion is stable, two retained grasps of equal
\* success rate are emitted in the order of the model's grasp list.
C8_StableAmongEqual ==
  Succeeded =>
     \A k, l \in DOMAIN object.grasps :
        (k < l /\ RateEQ(success_rates[k], success_rates[l]))
          => SourceIndex(k) < SourceIndex(l)

\* C8 as amended: a retained grasp is inserted immediately before the first
\* placed entry whose rate is greater than or equal to its own (appended when
\* there is none), so two retained grasps of equal success rate are emitted
\* in the reverse of their order in the model's grasp list.
C8_ReversedAmongEqual ==
  Succeeded =>
     /\ \A k, l \in DOMAIN object.grasps :
           (k < l /\ RateEQ(success_rates[k], success_rates[l]))
             => SourceIndex(k) > SourceIndex(l)
     /\ (pc = "rank" /\ gi > 1 /\ KeepGrasp(possible_grasps[gi - 1])) =>
           LET rate == getSuccessRate(possible_grasps[gi - 1])
               at == CHOOSE k \in DOMAIN object.grasps :
                        PoseOf(object.grasps[k], possible_grasps[gi - 1])
           IN  /\ \A k \in 1..(at - 1) : RateLT(success_rates[k], rate)
               /\ at < Len(success_rates) => RateLE(rate, success_rates[at + 1])

\* two grasps of rate 1/2 and a never-attempted grasp were placed
C8_Witness ==
  /\ pc = "done"
  /\ ret
  /\ \E k, l \in DOMAIN object.grasps :
        /\ k < l
        /\ RateEQ(success_rates[k], success_rates[l])
        /\ RatePositive(success_rates[k])
  /\ \E k \in DOMAIN object.grasps : ~RatePositive(success_rates[k])

\* C9: whenever recognizeObject returns true the orientation of the object
\* is the identity rotation (x = y = z = 0, w = 1), whatever it held before.
C9_OrientationIdentity ==
  (pc = "done" /\ ret) =>
     object.orientation = [x |-> 0, y |-> 0, z |-> 0, w |-> 1]

\* the transform a moved grasp pose stands for, without the centroid shift
Unshifted(pose) ==
  [basis |-> setRotation(pose.orientation),
   origin |-> VecSub(pose.position, object.centroid)]

\* C10 as stated: with the identity alignment and the zero centroid every
\* pose computeGraspList returns equals the source pose in position and in
\* orientation (the quaternion).
C10_RoundTripExact ==
  (Succeeded /\ min_icp_tf = IdentityTransform /\ object.centroid = ZeroVector) =>
     \A n \in DOMAIN possible_grasps :
        /\ possible_grasps[n].grasp_pose.position = WinnerGrasps[n].grasp_pose.position
        /\ possible_grasps[n].grasp_pose.orientation
             = WinnerGrasps[n].grasp_pose.orientation

\* C10 as amended: with the identity alignment and the zero centroid every
\* returned pose has the position of the source pose and an orientation that
\* is the same rotation (the quaternion is the source's or its negation: it
\* is the one tf2 derives from the rotation matrix); in general the alignment
\* composed with the returned pose, its translation less the centroid, is
\* the source pose, and the rotation does not depend on the centroid.
C10_RoundTripRotation ==
  Succeeded =>
     \A n \in DOMAIN possible_grasps :
        LET out == possible_grasps[n].grasp_pose
            in == WinnerGrasps[n].grasp_pose
        IN  /\ Times(min_icp_tf, Unshifted(out)) = toTF2Transform(in)
            /\ out.orientation
                 = computeGraspList(min_icp_tf, ZeroVector,
                                    WinnerGrasps)[n].grasp_pose.orientation
            /\ (min_icp_tf = IdentityTransform /\ object.centroid = ZeroVector) =>
                  /\ out.position = in.position
                  /\ setRotation(out.orientation) = setRotation(in.orientation)
                  /\ \/ out.orientation = in.orientation
                     \/ out.orientation = [c \in 1..4 |-> -in.orientation[c]]

\* identity alignment, zero centroid, a source quaternion that comes back
\* negated, and elsewhere a turned alignment with a shifted centroid
C10_Witness ==
  /\ pc = "done"
  /\ ret
  /\ min_icp_tf = IdentityTransform
  /\ object.centroid = ZeroVector
  /\ Len(possible_grasps) = 3
  /\ \E n \in DOMAIN possible_grasps :
        possible_grasps[n].grasp_pose.orientation
          # WinnerGrasps[n].grasp_pose.orientation
  /\ \E n \in DOMAIN possible_grasps :
        possible_grasps[n].grasp_pose.orientation
          = WinnerGrasps[n].grasp_pose.orientation

\* ------------------------------------- computeGraspList called on its own
\* what the output list may hold when computeGraspList is called
PriorGraspLists ==
  { <<>>, <<PoolGrasp(2)>>, <<PoolGrasp(5), PoolGrasp(1)>> }

\* a call computeGraspList(min_icp_tf, object.centroid,
\* candidates[min_index].getGrasps(), possible_grasps) with any output list
InitGraspList ==
  /\ pc = "call"
  /\ ret = FALSE
  /\ candidates \in RankingLists
  /\ object \in {FreshObject(4, c) : c \in Centroids}
  /\ object_in = object
  /\ i = 1
  /\ min_score = Infinity
  /\ min_index = 1
  /\ min_icp_tf = candidates[1].icp_tf
  /\ possible_grasps \in PriorGraspLists
  /\ grasps_in = possible_grasps
  /\ success_rates = <<>>
  /\ gi = 1
  /\ calls = <<>>

\* lines 163-189: the list is cleared (line 167), then holds the moved copy of
\* every candidate grasp; the candidate grasps are a const reference
CallComputeGraspList ==
  /\ pc = "call"
  /\ possible_grasps' = computeGraspList(min_icp_tf, object.centroid,
                                         candidates[min_index].grasps)
  /\ pc' = "returned"
  /\ UNCHANGED <<ret, candidates, grasps_in, object, object_in, i, min_score,
                 min_index, min_icp_tf, success_rates, gi, calls>>

NextGraspList == CallComputeGraspList

SpecGraspList == InitGraspList /\ [][NextGraspList]_vars

\* the fields of a grasp other than its pose, and the frame of its pose
KeptFields(g) ==
  [id |-> g.id, successes |-> g.successes, attempts |-> g.attempts,
   created |-> g.created, eef_frame_id |-> g.eef_frame_id,
   robot_fixed_frame_id |-> g.grasp_pose.robot_fixed_frame_id]

\* C11: computeGraspList returns exactly one grasp per input grasp, in input
\* order, whatever the output list held before; each output grasp keeps the
\* success count, attempt count, creation timestamp, end-effector frame id
\* and robot-fixed frame id of its source, and its pose is the moved source
\* pose; the input grasp list is not modified by the call.
C11_Returned ==
  pc = "returned" =>
     /\ Len(possible_grasps) = Len(WinnerGrasps)
     /\ \A n \in DOMAIN possible_grasps :
           /\ KeptFields(possible_grasps[n]) = KeptFields(WinnerGrasps[n])
           /\ DOMAIN possible_grasps[n] = DOMAIN WinnerGrasps[n]
           /\ DOMAIN possible_grasps[n].grasp_pose = DOMAIN WinnerGrasps[n].grasp_pose
           /\ Times(min_icp_tf, Unshifted(possible_grasps[n].grasp_pose))
                = toTF2Transform(WinnerGrasps[n].grasp_pose)

C11_GraspListKeepsFields ==
  /\ []C11_Returned
  /\ [][pc' = "returned" => candidates' = candidates]_vars

\* the output list held two grasps before the call, the model has three
\* grasps with different counts and frames, and the poses were moved
C11_Witness ==
  /\ pc = "returned"
  /\ Len(grasps_in) = 2
  /\ Len(possible_grasps) = 3
  /\ possible_grasps[1].attempts # possible_grasps[2].attempts
  /\ possible_grasps[1].grasp_pose.robot_fixed_frame_id
       # possible_grasps[2].grasp_pose.robot_fixed_frame_id
  /\ \A n \in DOMAIN possible_grasps :
        possible_grasps[n].grasp_pose # WinnerGrasps[n].grasp_pose

\* C12: after a successful recognizeObject every pose in object.grasps has
\* the frame identifier of the point cloud of the observed object, whatever
\* robot-fixed frame id is stored with the source grasp; the same holds after
\* every insertion.
C12_PosesInCloudFrame ==
  Succeeded =>
     /\ object.point_cloud.frame_id = object_in.point_cloud.frame_id
     /\ \A k \in DOMAIN object.grasps :
           object.grasps[k].frame_id = object.point_cloud.frame_id

\* two poses were emitted whose source grasps are stored in two different
\* frames, neither the frame of the cloud; the record held a pose in a third
C12_Witness ==
  /\ pc = "done"
  /\ ret
  /\ Len(object.grasps) >= 2
  /\ object_in.grasps # <<>>
  /\ \E k, l \in DOMAIN object.grasps :
        possible_grasps[SourceIndex(k)].grasp_pose.robot_fixed_frame_id
          # possible_grasps[SourceIndex(l)].grasp_pose.robot_fixed_frame_id
  /\ \A k \in DOMAIN object.grasps :
        possible_grasps[SourceIndex(k)].grasp_pose.robot_fixed_frame_id
          # object.point_cloud.frame_id

=============================================================================
